---- MODULE Spec2Model ----
(***************************************************************************)
(* Model of app.py, the Streamlit script that numbers uploaded points      *)
(* along user-drawn lines.  One script run (a Streamlit rerun) reads the   *)
(* widgets, walks the selected lines in order, keeps the points within the *)
(* threshold of each line, sorts them by their position along the line and *)
(* numbers them with a counter carried from line to line.                  *)
(*                                                                         *)
(* Lengths are integers in units of one slider step (0.1 m).  The points   *)
(* are a fixed three-point dataset and every drawn line is one of the      *)
(* two-vertex, axis-parallel polylines of Catalogue, so that the           *)
(* projection and the distance of shapely are exact integers.              *)
(***************************************************************************)
EXTENDS Integers, Sequences, FiniteSets, TLC

VARIABLES
    features,        \* draw_output["all_drawings"]: the drawn lines, in drawing order
    threshold,       \* the threshold slider's value
    tieRank,         \* the order the build's sort leaves rows of equal dist_on in
    start,           \* selectbox "Start-Linie"
    stop,            \* selectbox "Stopp-Linie"
    seq,             \* the selection sequence of this run
    pc,              \* position of the script run
    i,               \* position of the for loop in seq (1-based)
    global_counter,  \* the running order number
    all_results,     \* list of per-line frames (order, lon, lat)
    assigned,        \* the rows of sel after the merge, of every line of this run
    df_out,          \* pd.concat(all_results)
    ui,              \* what the run showed last: "none", "info", "export", "error"
    saved            \* an earlier run on the same lines and threshold, kept to compare

vars == << features, threshold, tieRank, start, stop, seq, pc, i,
           global_counter, all_results, assigned, df_out, ui, saved >>

----------------------------------------------------------------------------
(* Bounds of the model *)

\* the user draws at most MaxLines lines
MaxLines == 3

\* the slider is moved within SliderMin..MaxThreshold
MaxThreshold == 2

\* the numbering loop alone is also run with thresholds down to -NegThresholds
NegThresholds == 1

\* min_value of the threshold slider, in slider steps
SliderMin == 1

----------------------------------------------------------------------------
(* The ingested points *)

\* gdf after reset_index: orig_index, lon, lat
gdf ==
    << [orig_index |-> 0, lon |-> 80, lat |-> 470],
       [orig_index |-> 1, lon |-> 81, lat |-> 470],
       [orig_index |-> 2, lon |-> 82, lat |-> 470] >>

OrigIndex == { gdf[k].orig_index : k \in 1..Len(gdf) }

\* origin of the planar frame the model projects into
Origin == [lon |-> 80, lat |-> 470]

\* to_crs(epsg=3857): geographic coordinates to the planar metric frame
ToCrs(c) == [x |-> c.lon - Origin.lon, y |-> c.lat - Origin.lat]

\* gdf_proj: orig_index and the projected geometry
gdf_proj ==
    [k \in 1..Len(gdf) |->
        [orig_index |-> gdf[k].orig_index, geometry |-> ToCrs(gdf[k])]]

\* the polylines the user can draw, in geographic coordinates
Catalogue ==
    { \* parallel to the points, 1 below them, first to last
      << [lon |-> 80, lat |-> 469], [lon |-> 82, lat |-> 469] >>,
      \* on the points, from the last back to the middle one
      << [lon |-> 82, lat |-> 470], [lon |-> 81, lat |-> 470] >>,
      \* across, 2 before the first point
      << [lon |-> 78, lat |-> 469], [lon |-> 78, lat |-> 471] >> }

----------------------------------------------------------------------------
(* Geometry: shapely's project and distance on a two-vertex axis-parallel line *)

Abs(a) == IF a < 0 THEN 0 - a ELSE a
Min(a, b) == IF a <= b THEN a ELSE b
Max(a, b) == IF a >= b THEN a ELSE b
Clamp(v, lo, hi) == Max(lo, Min(v, hi))

\* exact square root; undefined (a TLC error) off the perfect squares
Sqrt(s) == CHOOSE r \in 0..s : r * r = s

\* the point of the line nearest to p
Foot(line, p) ==
    LET a == line[1]
        b == line[2]
    IN  IF a.y = b.y
        THEN [x |-> Clamp(p.x, Min(a.x, b.x), Max(a.x, b.x)), y |-> a.y]
        ELSE [x |-> a.x, y |-> Clamp(p.y, Min(a.y, b.y), Max(a.y, b.y))]

\* line_proj.project(p): arc length from the start vertex to the foot of p
Project(line, p) ==
    LET f == Foot(line, p)
    IN  Abs(f.x - line[1].x) + Abs(f.y - line[1].y)

\* p.distance(line_proj)
Distance(line, p) ==
    LET f == Foot(line, p)
    IN  Sqrt((p.x - f.x) * (p.x - f.x) + (p.y - f.y) * (p.y - f.y))

\* shape(feat["geometry"]) projected with to_crs(epsg=3857)
LineProj(feat) == [k \in 1..Len(feat) |-> ToCrs(feat[k])]

\* df: gdf_proj with the columns dist_on and dist_to against one line
ComputeDf(feat) ==
    [k \in 1..Len(gdf_proj) |->
        [orig_index |-> gdf_proj[k].orig_index,
         dist_on    |-> Project(LineProj(feat), gdf_proj[k].geometry),
         dist_to    |-> Distance(LineProj(feat), gdf_proj[k].geometry)]]

----------------------------------------------------------------------------
(* The numbering run *)

\* list(range(a, b)) and list(range(a, b, -1))
RangeUp(a, b) == [k \in 1..Max(0, b - a) |-> a + k - 1]
RangeDown(a, b) == [k \in 1..Max(0, a - b) |-> a - k + 1]

\* mutant: the backward range stops one short of stop
SeqOfShort(s, t) == IF s <= t THEN RangeUp(s, t + 1) ELSE RangeDown(s, t)

\* mutant: a backward selection is walked forward
SeqOfForward(s, t) == IF s <= t THEN RangeUp(s, t + 1) ELSE RangeUp(t, s + 1)

\* seq: the lines from start to stop, forward or backward
SeqOf(s, t) == IF s <= t THEN RangeUp(s, t + 1) ELSE RangeDown(s, t - 1)

\* features[idx - 1]: the idx-th drawn line (Python lists count from 0)
FeatureAt(idx) == features[idx]

\* mutant: the counter of the run before is carried into the next run
LeakedCounter == global_counter

\* global_counter = 1 at the start of every run
InitialCounter == 1

\* mutant: the boundary is exclusive
FilterStrict(df, t) == SelectSeq(df, LAMBDA r : r.dist_to < t)

\* sel = df[df["dist_to"] <= threshold]
Filter(df, t) == SelectSeq(df, LAMBDA r : r.dist_to <= t)

\* mutant: an empty selection is numbered like any other
SelEmptyNever(sel) == FALSE

\* sel.empty
SelEmpty(sel) == Len(sel) = 0

\* r1 is placed before r2 by the sort: smaller dist_on first; rows of equal
\* dist_on in the order of the build's sort, which is fixed but unspecified
\* (the default kind, quicksort, is not stable)
Before(r1, r2) ==
    \/ r1.dist_on < r2.dist_on
    \/ r1.dist_on = r2.dist_on /\ tieRank[r1.orig_index] < tieRank[r2.orig_index]

\* r put at its place in the sorted sequence s
Insert(r, s) ==
    LET less == SelectSeq(s, LAMBDA q : Before(q, r))
        rest == SelectSeq(s, LAMBDA q : ~Before(q, r))
    IN  less \o << r >> \o rest

RECURSIVE SortFrom(_, _)
SortFrom(sel, k) ==
    IF k = 0 THEN << >> ELSE Insert(sel[k], SortFrom(sel, k - 1))

\* mutant: the rows are left in ingestion order
SortValuesNone(sel) == sel

\* sel.sort_values("dist_on").reset_index(drop=True)
SortValues(sel) == SortFrom(sel, Len(sel))

\* sel["order"] = list(range(global_counter, global_counter + len(sel)))
AssignOrder(sel, counter) ==
    [k \in 1..Len(sel) |->
        [orig_index |-> sel[k].orig_index,
         dist_on    |-> sel[k].dist_on,
         dist_to    |-> sel[k].dist_to,
         order      |-> counter + k - 1]]

\* mutant: the counter stops on the last number given instead of after it
NextCounterShort(counter, sel) == counter + Len(sel) - 1

\* global_counter += len(sel)
NextCounter(counter, sel) == counter + Len(sel)

\* the rows of gdf joined to one row of sel, in gdf's order
Joined(r) ==
    LET right == SelectSeq(gdf, LAMBDA g : g.orig_index = r.orig_index)
    IN  [k \in 1..Len(right) |->
            [orig_index |-> r.orig_index,
             dist_on    |-> r.dist_on,
             dist_to    |-> r.dist_to,
             order      |-> r.order,
             lon        |-> right[k].lon,
             lat        |-> right[k].lat]]

RECURSIVE MergeFrom(_, _)
MergeFrom(sel, k) ==
    IF k > Len(sel) THEN << >> ELSE Joined(sel[k]) \o MergeFrom(sel, k + 1)

\* sel.merge(gdf[["orig_index", "lon", "lat"]], on="orig_index"): an inner
\* join that keeps the order of the left rows
Merge(sel) == MergeFrom(sel, 1)

\* sel[["order", "lon", "lat"]]
Columns(sel) ==
    [k \in 1..Len(sel) |->
        [order |-> sel[k].order, lon |-> sel[k].lon, lat |-> sel[k].lat]]

\* the merged rows with the line they were numbered on
WithLine(sel, idx) ==
    [k \in 1..Len(sel) |->
        [idx        |-> idx,
         orig_index |-> sel[k].orig_index,
         dist_on    |-> sel[k].dist_on,
         dist_to    |-> sel[k].dist_to,
         order      |-> sel[k].order]]

\* mutant: the list of frames is taken for results even when it is empty
HasResultsAlways(frames) == TRUE

\* if all_results:
HasResults(frames) == Len(frames) > 0

RECURSIVE ConcatFrom(_, _)
ConcatFrom(frames, k) ==
    IF k > Len(frames) THEN << >> ELSE frames[k] \o ConcatFrom(frames, k + 1)

\* the first row of every (lon, lat) only
DropDuplicates(rows) ==
    SelectSeq(
        [k \in 1..Len(rows) |-> [row |-> rows[k], k |-> k]],
        LAMBDA e : \A j \in 1..(e.k - 1) :
            rows[j].lon # e.row.lon \/ rows[j].lat # e.row.lat)

\* mutant: a point numbered on an earlier line is dropped from later ones
ConcatDedup(frames) ==
    LET kept == DropDuplicates(ConcatFrom(frames, 1))
    IN  [k \in 1..Len(kept) |-> kept[k].row]

\* pd.concat(all_results, ignore_index=True)
Concat(frames) == ConcatFrom(frames, 1)

----------------------------------------------------------------------------
(* The script run, as steps *)

NoRun == [start |-> 0, stop |-> 0, ui |-> "none", df_out |-> << >>, assigned |-> << >>]

\* what an observer keeps of a finished run
ThisRun ==
    [start |-> start, stop |-> stop, ui |-> ui, df_out |-> df_out, assigned |-> assigned]

\* the script from the selectboxes to the loop's first iteration
StartRun(s, t) ==
    /\ start' = s
    /\ stop' = t
    /\ seq' = SeqOf(s, t)
    /\ global_counter' = InitialCounter
    /\ all_results' = << >>
    /\ assigned' = << >>
    /\ df_out' = << >>
    /\ ui' = "none"
    /\ i' = 1
    /\ pc' = "loop"

TieOrders == { f \in [OrigIndex -> 1..Cardinality(OrigIndex)] :
                    \A a, b \in OrigIndex : a # b => f[a] # f[b] }

\* the thresholds the slider gives
Thresholds == SliderMin..MaxThreshold

\* the thresholds the numbering loop is run with on its own
EngineThresholds == (0 - NegThresholds)..MaxThreshold

\* the state when the script first ran: the points were read, or refused
\* for holding a geometry that is no point; nothing is drawn yet
InitWith(T) ==
    /\ features = << >>
    /\ threshold \in T
    /\ tieRank \in TieOrders
    /\ start = 0
    /\ stop = 0
    /\ seq = << >>
    /\ i = 1
    /\ global_counter = 1
    /\ all_results = << >>
    /\ assigned = << >>
    /\ df_out = << >>
    /\ saved = NoRun
    /\ \/ pc = "idle" /\ ui = "none"
       \/ pc = "stopped" /\ ui = "error"

Init == InitWith(Thresholds)

\* the user draws one more line: the script reruns, the selectboxes are new
\* widgets and show their defaults, the first and the last line
DrawLine(feat) ==
    /\ pc \in {"idle", "done"}
    /\ Len(features) < MaxLines
    /\ features' = Append(features, feat)
    /\ StartRun(1, Len(features) + 1)
    /\ saved' = NoRun
    /\ UNCHANGED << threshold, tieRank >>

\* the user moves the threshold slider: the script reruns
SetThreshold(t) ==
    /\ pc \in {"idle", "done"}
    /\ t # threshold
    /\ threshold' = t
    /\ saved' = NoRun
    /\ IF features = << >>
       THEN UNCHANGED << start, stop, seq, pc, i, global_counter, all_results,
                         assigned, df_out, ui >>
       ELSE StartRun(start, stop)
    /\ UNCHANGED << features, tieRank >>

\* the user picks a start line, or touches the page with the start line as it
\* is: the script reruns
SelectStart(s) ==
    /\ pc = "done"
    /\ s \in 1..Len(features)
    /\ StartRun(s, stop)
    /\ UNCHANGED << features, threshold, tieRank, saved >>

\* the user picks a stop line: the script reruns
SelectStop(t) ==
    /\ pc = "done"
    /\ t \in 1..Len(features)
    /\ StartRun(start, t)
    /\ UNCHANGED << features, threshold, tieRank, saved >>

\* one iteration of "for idx in seq"
LoopStep ==
    /\ pc = "loop"
    /\ i <= Len(seq)
    /\ LET idx == seq[i]
           df  == ComputeDf(FeatureAt(idx))
           sel == Filter(df, threshold)
       IN  IF SelEmpty(sel)
           THEN UNCHANGED << global_counter, all_results, assigned >>
           ELSE LET sorted   == SortValues(sel)
                    numbered == AssignOrder(sorted, global_counter)
                    merged   == Merge(numbered)
                IN  /\ global_counter' = NextCounter(global_counter, sorted)
                    /\ all_results' = Append(all_results, Columns(merged))
                    /\ assigned' = assigned \o WithLine(merged, idx)
    /\ i' = i + 1
    /\ UNCHANGED << features, threshold, tieRank, start, stop, seq, pc,
                    df_out, ui, saved >>

\* after the loop: the table and the download, or the note that nothing matched
Finish ==
    /\ pc = "loop"
    /\ i > Len(seq)
    /\ IF HasResults(all_results)
       THEN df_out' = Concat(all_results) /\ ui' = "export"
       ELSE df_out' = df_out /\ ui' = "info"
    /\ pc' = "done"
    /\ UNCHANGED << features, threshold, tieRank, start, stop, seq, i,
                    global_counter, all_results, assigned, saved >>

\* an observer keeps a finished run over all the drawn lines, first to last
\* or last to first, to hold later runs on the same lines and threshold
\* against it
Observe ==
    /\ pc = "done"
    /\ {start, stop} = {1, Len(features)}
    /\ saved # ThisRun
    /\ saved' = ThisRun
    /\ UNCHANGED << features, threshold, tieRank, start, stop, seq, pc, i,
                    global_counter, all_results, assigned, df_out, ui >>

Next ==
    \/ \E feat \in Catalogue : DrawLine(feat)
    \/ \E t \in Thresholds : SetThreshold(t)
    \/ \E s \in 1..MaxLines : SelectStart(s)
    \/ \E t \in 1..MaxLines : SelectStop(t)
    \/ LoopStep
    \/ Finish

Spec == Init /\ [][Next]_vars

NextObserved == Next \/ Observe

SpecObserved == Init /\ [][NextObserved]_vars

NextEngine ==
    \/ \E feat \in Catalogue : DrawLine(feat)
    \/ \E t \in EngineThresholds : SetThreshold(t)
    \/ \E s \in 1..MaxLines : SelectStart(s)
    \/ \E t \in 1..MaxLines : SelectStop(t)
    \/ LoopStep
    \/ Finish

SpecEngine == InitWith(EngineThresholds) /\ [][NextEngine]_vars

----------------------------------------------------------------------------
(* What the claims speak of *)

Running == pc \in {"loop", "done"}

\* the rows of gdf_proj within the threshold of the idx-th line
Qualifying(idx) ==
    { k \in 1..Len(gdf_proj) :
        Distance(LineProj(features[idx]), gdf_proj[k].geometry) <= threshold }

\* the number of (point, line) matches on the first j lines of seq
RECURSIVE MatchedCount(_)
MatchedCount(j) ==
    IF j = 0 THEN 0 ELSE Cardinality(Qualifying(seq[j])) + MatchedCount(j - 1)

\* the rows of `rows` numbered on line idx
RowsOn(rows, idx) == { k \in 1..Len(rows) : rows[k].idx = idx }

IsPrefix(a, b) == Len(a) <= Len(b) /\ \A k \in 1..Len(a) : a[k] = b[k]

\* two rows of one line have the same along-line position
HasTie(rows) ==
    \E j, k \in 1..Len(rows) :
        j # k /\ rows[j].idx = rows[k].idx /\ rows[j].dist_on = rows[k].dist_on

\* C1: the order numbers given so far are 1, 2, ... in sequence, one per output
\* entry, the running counter is 1 plus the number of entries, however many
\* lines were skipped, and the finished output carries exactly the numbers
\* 1..total_matched_count.
C1_Contiguous ==
    Running =>
        /\ \A k \in 1..Len(assigned) : assigned[k].order = k
        /\ global_counter = 1 + Len(assigned)
        /\ Len(assigned) = MatchedCount(i - 1)
        /\ (pc = "done" /\ ui = "export") =>
              /\ Len(df_out) = MatchedCount(Len(seq))
              /\ \A k \in 1..Len(df_out) : df_out[k].order = k

\* a finished run of at least four entries that skipped a line
C1_Witness ==
    /\ pc = "done"
    /\ Len(df_out) >= 4
    /\ \E j \in 1..Len(seq) : Qualifying(seq[j]) = {}

\* the kept run is of the selection of this run (and of the same lines,
\* points and threshold, for a change of those drops the kept run)
SameSelection == saved # NoRun /\ saved.start = start /\ saved.stop = stop

C3_MonotonePerLine ==
    Running =>
        /\ \A j, k \in 1..Len(assigned) :
              (assigned[j].idx = assigned[k].idx /\ assigned[j].order < assigned[k].order)
                  => assigned[j].dist_on <= assigned[k].dist_on
        /\ \A f \in 1..Len(all_results) :
              \A j, k \in 1..Len(all_results[f]) :
                  j < k => all_results[f][j].order < all_results[f][k].order

\* a line whose points are numbered against their ingestion order
C3_Witness ==
    /\ pc = "done"
    /\ \E j, k \in 1..Len(assigned) :
          /\ assigned[j].idx = assigned[k].idx
          /\ assigned[j].order < assigned[k].order
          /\ assigned[j].dist_on < assigned[k].dist_on
          /\ assigned[j].orig_index > assigned[k].orig_index

\* C4: on every processed line a point is numbered exactly when its distance to
\* the line is at most the threshold, the distance equal to it included.
C4_InclusiveThreshold ==
    Running =>
        \A j \in 1..(i - 1) : \A k \in 1..Len(gdf_proj) :
            (\E r \in RowsOn(assigned, seq[j]) :
                  assigned[r].orig_index = gdf_proj[k].orig_index)
              <=> Distance(LineProj(features[seq[j]]), gdf_proj[k].geometry) <= threshold

\* a processed line with one point exactly at the threshold, numbered, and
\* another beyond it, left out
C4_Witness ==
    /\ pc = "done"
    /\ \E j \in 1..Len(seq) : \E k, m \in 1..Len(gdf_proj) :
          /\ Distance(LineProj(features[seq[j]]), gdf_proj[k].geometry) = threshold
          /\ Distance(LineProj(features[seq[j]]), gdf_proj[m].geometry) > threshold
          /\ \E r \in RowsOn(assigned, seq[j]) :
                assigned[r].orig_index = gdf_proj[k].orig_index

\* the position of line idx in seq
PosIn(s, idx) == CHOOSE k \in 1..Len(s) : s[k] = idx

\* the row of `rows` for the same point on the same line as r
Twin(rows, r) ==
    CHOOSE k \in 1..Len(rows) :
        rows[k].idx = r.idx /\ rows[k].orig_index = r.orig_index

Pairs(rows) == { << rows[k].orig_index, rows[k].idx >> : k \in 1..Len(rows) }

\* the kept run went over the same lines the other way
ReversedSelection ==
    saved # NoRun /\ saved.start = stop /\ saved.stop = start /\ start # stop

\* C5: a run over the lines from stop back to start matches the same (point,
\* line) pairs as the run from start to stop; in each run the lines' blocks of
\* numbers follow the order the lines were processed in, so the blocks come in
\* the opposite order; within a line the points come in the same order.
C5_Reversal ==
    (pc = "done" /\ ReversedSelection) =>
        /\ Pairs(assigned) = Pairs(saved.assigned)
        /\ \A j, k \in 1..Len(assigned) :
              LET a  == assigned[j]
                  b  == assigned[k]
                  sa == saved.assigned[Twin(saved.assigned, a)]
                  sb == saved.assigned[Twin(saved.assigned, b)]
              IN  /\ (a.idx = b.idx) => (a.order < b.order <=> sa.order < sb.order)
                  /\ (a.idx # b.idx) =>
                        /\ a.order < b.order <=> sa.order > sb.order
                        /\ a.order < b.order <=> (a.idx < b.idx <=> start < stop)

\* lines 3, 2, 1 after lines 1, 2, 3, with points on at least two of them
C5_Witness ==
    /\ pc = "done"
    /\ Len(features) = 3
    /\ seq = << 3, 2, 1 >>
    /\ saved # NoRun
    /\ saved.start = 1
    /\ saved.stop = 3
    /\ Cardinality({ assigned[k].idx : k \in 1..Len(assigned) }) >= 2
    /\ \E idx \in 1..3 : Cardinality(RowsOn(assigned, idx)) >= 2

\* a line with no point within the threshold is being processed
EmptyLineStep == pc = "loop" /\ i <= Len(seq) /\ i' = i + 1 /\ Qualifying(seq[i]) = {}

\* a line with points within the threshold is being processed
MatchedLineStep == pc = "loop" /\ i <= Len(seq) /\ i' = i + 1 /\ Qualifying(seq[i]) # {}

\* C6: processing a line with no point within the threshold leaves the counter
\* and the accumulated output as they were, and a line with points starts
\* numbering at the counter it finds, that is, at the value from before any
\* empty lines just passed.
C6_EmptyLineSkip ==
    [][ /\ EmptyLineStep =>
              /\ global_counter' = global_counter
              /\ all_results' = all_results
              /\ assigned' = assigned
        /\ MatchedLineStep =>
              /\ Len(assigned') > Len(assigned)
              /\ assigned'[Len(assigned) + 1].order = global_counter
              /\ Len(all_results') = Len(all_results) + 1
              /\ all_results'[Len(all_results')][1].order = global_counter
      ]_vars

\* a finished run where an empty line lay between two lines with points
C6_Witness ==
    /\ pc = "done"
    /\ \E j \in 2..(Len(seq) - 1) :
          /\ Qualifying(seq[j]) = {}
          /\ Qualifying(seq[j - 1]) # {}
          /\ Qualifying(seq[j + 1]) # {}
          /\ \E r \in RowsOn(assigned, seq[j + 1]) :
                assigned[r].order = 1 + Cardinality(RowsOn(assigned, seq[j - 1]))

\* the rows of the output that carry the coordinates of point g
OutRowsOf(g) ==
    { k \in 1..Len(df_out) : df_out[k].lon = g.lon /\ df_out[k].lat = g.lat }

\* the positions of seq whose line has point number k within the threshold
LinesMatching(k) == { j \in 1..Len(seq) : k \in Qualifying(seq[j]) }

\* C7: a point within the threshold of k processed lines is in the output k
\* times, each time under another order number, and the output is as long as
\* the matches of all processed lines together.
C7_NoDeduplication ==
    pc = "done" =>
        /\ Len(df_out) = MatchedCount(Len(seq))
        /\ \A k \in 1..Len(gdf) :
              /\ Cardinality(OutRowsOf(gdf[k])) = Cardinality(LinesMatching(k))
              /\ \A a, b \in OutRowsOf(gdf[k]) :
                    a # b => df_out[a].order # df_out[b].order

\* a finished run in which one point matched two lines
C7_Witness ==
    /\ pc = "done"
    /\ \E k \in 1..Len(gdf) :
          /\ Cardinality(LinesMatching(k)) >= 2
          /\ Cardinality(OutRowsOf(gdf[k])) >= 2

\* C8: a run in which no line has a point within the threshold ends with an
\* empty output and the note that nothing matched, not with an error or an
\* export; a run in which some line has one ends with a non-empty output and
\* the export.
C8_NoPointsMatched ==
    pc = "done" =>
        /\ (\A j \in 1..Len(seq) : Qualifying(seq[j]) = {})
              => (df_out = << >> /\ ui = "info")
        /\ (\E j \in 1..Len(seq) : Qualifying(seq[j]) # {})
              => (df_out # << >> /\ ui = "export")

\* a finished run over two lines or more, none of them near any point
C8_Witness ==
    /\ pc = "done"
    /\ Len(seq) >= 2
    /\ \A j \in 1..Len(seq) : Qualifying(seq[j]) = {}
    /\ ui = "info"

C10_SelectionSequence ==
    Running =>
        LET n == Len(features)
        IN  /\ n >= 1
            /\ start \in 1..n
            /\ stop \in 1..n
            /\ Len(seq) >= 1
            /\ seq[1] = start
            /\ seq[Len(seq)] = stop
            /\ \A k \in 1..(Len(seq) - 1) :
                  seq[k + 1] - seq[k] = (IF start <= stop THEN 1 ELSE 0 - 1)
            /\ \A j, k \in 1..Len(seq) : j # k => seq[j] # seq[k]
            /\ \A k \in 1..Len(seq) : seq[k] \in 1..n

\* start = 3 and stop = 1 give [3, 2, 1], and the run went over it
C10_Witness ==
    /\ pc = "done"
    /\ start = 3
    /\ stop = 1
    /\ seq = << 3, 2, 1 >>

====
